---- MODULE Spec2Model ----
(***************************************************************************)
(* Millikan oil-drop simulator (src/main.js): the physics integrator, the  *)
(* frame sub-stepping driver and the configuration entry points, as a      *)
(* state machine.                                                          *)
(*                                                                         *)
(* Number representation.  The program computes in IEEE doubles; the model *)
(* computes the same formulas in scaled integers (fixed point), rounding   *)
(* every quotient toward zero.  The times of the frame driver (update()'s   *)
(* argument and `remaining`, the sub-step durations, state.pulseTimer) are  *)
(* kept as the doubles they are, bit for bit: a time t is the natural       *)
(* number t * 2^63, in limbs.  Units of the physics:                        *)
(*   time          1/18000 s   (a sub-step of 1/1800 s is 10)               *)
(*   update(dt)    1/4096 s    (the finite arguments drawn are dyadic)      *)
(*   length        1 nm        (drop.y, state.plateGapMeters,               *)
(*                              drop.radiusMeters)                          *)
(*   radiusMicrons 0.01 um                                                  *)
(*   velocity      1 um/s                                                   *)
(*   mass          1e-20 kg                                                 *)
(*   force         1e-18 N                                                  *)
(*   dragCoeff     1e-14 kg/s                                               *)
(*   viscosity     1e-7 Pa s                                                *)
(*   charge        1e-22 C     (chargeMultiple is a plain integer)     *)
(*   field E       1 V/m                                                    *)
(*   voltageKV     0.01 kV                                                  *)
(*   temperature   1 K                                                      *)
(*   noiseBoost    0.01                                                     *)
(*   gravity       0.01 m/s^2                                               *)
(*   slipFactor, Knudsen number, exp()   1e-6                               *)
(* A charge typed into a control is in tenths of e (it is rounded).        *)
(* Rendering state (trail, history samples, showTrail, showGrid, canvas)   *)
(* is not part of the model: no modelled operation reads it.               *)
(***************************************************************************)
EXTENDS Integers, Sequences, FiniteSets, TLC

----------------------------------------------------------------------------
(* Arithmetic helpers of the fixed-point representation *)

MaxInt == 2147483647 + 0

Abs(x) == IF x < 0 THEN -x ELSE x

Sgn(x) == IF x < 0 THEN -1 ELSE IF x > 0 THEN 1 ELSE 0

Max(a, b) == IF a >= b THEN a ELSE b

Min(a, b) == IF a <= b THEN a ELSE b

(* <<q, r>> with a*b = q*c + r, 0 <= r < c, for a, b >= 0 and c > 0, without
   forming a*b when it does not fit the integer width *)
RECURSIVE MulDivQR(_, _, _)
MulDivQR(a, b, c) ==
  IF b = 0 \/ a = 0 THEN <<0, 0>>
  ELSE IF a <= MaxInt \div b THEN <<(a * b) \div c, (a * b) % c>>
  ELSE LET h  == MulDivQR(a, b \div 2, c)
           r3 == 2 * h[2] + (b % 2) * (a % c)
           q3 == 2 * h[1] + (b % 2) * (a \div c)
       IN  <<q3 + (r3 \div c), r3 % c>>

(* a*b/c rounded toward zero, for any signs of a and b, c > 0 *)
MulDiv(a, b, c) == Sgn(a) * Sgn(b) * MulDivQR(Abs(a), Abs(b), c)[1]

(* floor of the square root of n >= 0, by bisection on [lo, hi) *)
RECURSIVE SqrtIn(_, _, _)
SqrtIn(n, lo, hi) ==
  IF hi - lo <= 1 THEN lo
  ELSE LET mid == (lo + hi) \div 2
       IN  IF mid * mid <= n THEN SqrtIn(n, mid, hi) ELSE SqrtIn(n, lo, mid)

ISqrt(n) == SqrtIn(n, 0, 46341)

Scale6 == 1000 * 1000

(* The Taylor series of e^-f to the 8th power at scale 1e-6, f in thousandths
   below 1 *)
ExpFraction(x) ==
  LET f  == x * 1000
      t2 == MulDiv(f, f, Scale6)
      t3 == MulDiv(t2, f, Scale6)
      t4 == MulDiv(t3, f, Scale6)
      t5 == MulDiv(t4, f, Scale6)
      t6 == MulDiv(t5, f, Scale6)
      t7 == MulDiv(t6, f, Scale6)
      t8 == MulDiv(t7, f, Scale6)
  IN  Scale6 - f + (t2 \div 2) - (t3 \div 6) + (t4 \div 24) - (t5 \div 120)
        + (t6 \div 720) - (t7 \div 5040) + (t8 \div 40320)

(* acc * exp(-x): a factor e^-1 per whole unit of x until the product
   underflows the 1e-6 scale *)
RECURSIVE ExpNegAcc(_, _)
ExpNegAcc(x, acc) ==
  IF acc = 0 THEN 0
  ELSE IF x < 1000 THEN MulDiv(acc, ExpFraction(x), Scale6)
  ELSE ExpNegAcc(x - 1000, MulDiv(367879, acc, Scale6))

(* Math.exp(-x) at scale 1e-6 for x in thousandths, x >= 0 *)
ExpNeg(x) == ExpNegAcc(x, Scale6)

(* Math.min(Math.max(v, a), b) *)
clamp(v, a, b) == Min(Max(v, a), b)

----------------------------------------------------------------------------
(* IEEE double arithmetic on times.  A time t >= 0 is the natural number
   t * 2^63 (every time the driver forms is a whole number of these ticks),
   written little-endian in LimbCount limbs of base LimbBase. *)

LimbBase == 65536

LimbCount == 5

TZero == [i \in 1..LimbCount |-> 0]

TSmall(n) == [i \in 1..LimbCount |-> IF i = 1 THEN n ELSE 0]

RECURSIVE BorrowOut(_, _, _, _)
BorrowOut(a, b, i, borrow) ==
  IF i > LimbCount THEN borrow
  ELSE BorrowOut(a, b, i + 1, IF a[i] - b[i] - borrow < 0 THEN 1 ELSE 0)

(* a < b *)
TLess(a, b) == BorrowOut(a, b, 1, 0) = 1

(* Math.min(a, b) *)
TMin(a, b) == IF TLess(b, a) THEN b ELSE a

RECURSIVE SubLimbs(_, _, _, _)
SubLimbs(a, b, i, borrow) ==
  IF i > LimbCount THEN <<>>
  ELSE <<(a[i] - b[i] - borrow) % LimbBase>>
         \o SubLimbs(a, b, i + 1, IF a[i] - b[i] - borrow < 0 THEN 1 ELSE 0)

RECURSIVE AddLimbs(_, _, _, _)
AddLimbs(a, b, i, carry) ==
  IF i > LimbCount THEN <<>>
  ELSE <<(a[i] + b[i] + carry) % LimbBase>>
         \o AddLimbs(a, b, i + 1, (a[i] + b[i] + carry) \div LimbBase)

(* the exact sum a + b *)
TAdd(a, b) == AddLimbs(a, b, 1, 0)

(* the exact difference a - b, for a >= b *)
TSub(a, b) == SubLimbs(a, b, 1, 0)

BitLen16(x) == Cardinality({i \in 0..15 : 2^i <= x})

TopLimb(a) == Cardinality({i \in 1..LimbCount : \E j \in i..LimbCount : a[j] # 0})

(* number of significant bits of a *)
BitLen(a) ==
  IF TopLimb(a) = 0 THEN 0 ELSE 16 * (TopLimb(a) - 1) + BitLen16(a[TopLimb(a)])

(* a rounded to a multiple of 2^s, to nearest, ties to even, 0 < s < 16;
   sticky: the exact value lies strictly above a *)
RoundAt(a, s, sticky) ==
  IF a[1] % 2^s > 2^(s - 1)
     \/ (a[1] % 2^s = 2^(s - 1) /\ (sticky \/ (a[1] \div 2^s) % 2 = 1))
  THEN TAdd(TSub(a, TSmall(a[1] % 2^s)), TSmall(2^s))
  ELSE TSub(a, TSmall(a[1] % 2^s))

(* the double nearest to the exact value a: 53 significant bits *)
Round53(a, sticky) ==
  IF BitLen(a) <= 53 THEN a ELSE RoundAt(a, BitLen(a) - 53, sticky)

(* the double a - b of the doubles a >= b *)
DblSub(a, b) == Round53(TSub(a, b), FALSE)

(* long division of a by q < 2^15 from the top limb down:
   <<quotient limbs, remainder>> *)
RECURSIVE DivLimbs(_, _, _, _)
DivLimbs(a, q, i, r) ==
  IF i = 0 THEN <<<<>>, r>>
  ELSE LET rest == DivLimbs(a, q, i - 1, (r * LimbBase + a[i]) % q)
       IN  <<rest[1] \o <<(r * LimbBase + a[i]) \div q>>, rest[2]>>

(* the whole number p of seconds, 0 < p < 2^16 *)
TWhole(p) ==
  [i \in 1..LimbCount |->
     IF i = 4 THEN (p * 32768) % LimbBase
     ELSE IF i = 5 THEN (p * 32768) \div LimbBase ELSE 0]

(* the double that p / q evaluates to, 0 < p < q < 2^15: the quotient has
   more than 53 bits, the remainder only breaks ties *)
DblOfRatio(p, q) ==
  Round53(DivLimbs(TWhole(p), q, LimbCount, 0)[1],
          DivLimbs(TWhole(p), q, LimbCount, 0)[2] # 0)

----------------------------------------------------------------------------
(* Physics constants, src/main.js 12-29 *)

ELECTRON_CHARGE == 1602

OIL_DENSITY == 8600

AIR_DENSITY == 12

AIR_MEAN_FREE_PATH == 65

CUNNINGHAM_A == 1257000

CUNNINGHAM_B == 400000

CUNNINGHAM_C == 1100

PiNum == 355

PiDen == 113

MAX_FRAME_DT == DblOfRatio(1, 20)

SUBSTEP_DT == DblOfRatio(1, 1800)

(* the literal 0.8 of the pulse handler, line 348 *)
PulseSeconds == DblOfRatio(4, 5)

BASE_MAX_SPEED == 120000

MIN_GAP_METERS == 2000000

MAX_GAP_METERS == 10000000

BOUNCE_DAMPING == 3

(* Scale of BOUNCE_DAMPING: 0.3 = 3/10 *)
DampingScale == 10

----------------------------------------------------------------------------
(* State, src/main.js 32-57, and the position of the frame driver *)

VARIABLES
  state,      \* the global `state` object (simulation parameters)
  drop,       \* the global `drop` object
  pc,         \* "boot" before bootstrap(), "idle" between events, "loop" inside update()'s while loop
  remaining,  \* update()'s local `remaining`
  E,          \* update()'s local `E`, the field last computed by update()
  steps,      \* number of integrateStep invocations since the last update() call began
  speedCap,   \* integrateStep's local `speedCap` of its last invocation
  bounced,    \* whether the last integrateStep invocation reflected the drop at a plate
  lastOp,     \* name of the last operation performed
  lastDt,     \* the argument of the last update() call
  stepDt,     \* update()'s local `stepDt` of its last loop iteration
  elapsed,    \* exact sum of the sub-step durations of the last update() call
  sincePulse, \* exact sum of the sub-step durations since the last pulse press, followed up to 0.8 s
  events,     \* number of UI events handled so far
  frames      \* number of update() calls so far

vars ==
  <<state, drop, pc, remaining, E, steps, speedCap, bounced, lastOp, lastDt, stepDt,
    elapsed, sincePulse, events, frames>>

----------------------------------------------------------------------------
(* Coefficient model, src/main.js 70-83.  Operators on the pair of globals
   take and return a record w = [state |-> ..., drop |-> ...]. *)

W(s, d) == [state |-> s, drop |-> d]

(* computeSlipCorrection(radiusMeters): 1 + kn*(A + B*exp(-C/kn)) at scale 1e-6 *)
SlipOfKnudsen(kn) ==
  Scale6 + MulDiv(kn, CUNNINGHAM_A
                        + MulDiv(CUNNINGHAM_B, ExpNeg(MulDiv(CUNNINGHAM_C, Scale6, kn)), Scale6),
                  Scale6)

computeSlipCorrection(radiusMeters) ==
  SlipOfKnudsen(MulDiv(AIR_MEAN_FREE_PATH, Scale6, Max(radiusMeters, 5)))

(* drop.radiusMeters = state.radiusMicrons * 1e-6: 0.01 um -> nm *)
RadiusMetersOf(radiusMicrons) == radiusMicrons * 10

(* (4/3)*pi*r^3 in units of 1e-24 m^3 *)
VolumeOf(radiusMeters) ==
  MulDiv(MulDiv(radiusMeters * radiusMeters, radiusMeters, 1000), 4 * PiNum, 3 * PiDen)

(* Math.max(volume * effDensity, 1e-20), effDensity = max(oil - air, 1) *)
MassOf(radiusMeters) ==
  Max(MulDiv(VolumeOf(radiusMeters), Max(OIL_DENSITY - AIR_DENSITY, 10), 100000), 1)

(* (6*pi*viscosity*radiusMeters) / slipFactor *)
DragCoeffOf(viscosity, radiusMeters, slipFactor) ==
  MulDiv(MulDiv(6 * PiNum, viscosity * radiusMeters, PiDen), 10000, slipFactor)

(* Faulty variant: drop.mass not assigned *)
StoreCoefficientsNoMass(d, radiusMeters, viscosity, slipFactor) ==
  [d EXCEPT !.radiusMeters = radiusMeters, !.slipFactor = slipFactor,
            !.dragCoeff = DragCoeffOf(viscosity, radiusMeters, slipFactor)]

(* lines 77-82: the four cached coefficients stored on the drop *)
StoreCoefficients(d, radiusMeters, viscosity, slipFactor) ==
  [d EXCEPT !.radiusMeters = radiusMeters,
            !.mass = MassOf(radiusMeters),
            !.slipFactor = slipFactor,
            !.dragCoeff = DragCoeffOf(viscosity, radiusMeters, slipFactor)]

(* recomputeDropCoefficients() *)
recomputeDropCoefficients(w) ==
  W(w.state,
    StoreCoefficients(w.drop, RadiusMetersOf(w.state.radiusMicrons), w.state.viscosity,
                      computeSlipCorrection(RadiusMetersOf(w.state.radiusMicrons))))

----------------------------------------------------------------------------
(* Numbers that may be non-finite: the argument of update() and setPlateGap() *)

Fin(x) == [kind |-> "finite", value |-> x]

NaN == [kind |-> "NaN", value |-> 0]

PosInf == [kind |-> "+Infinity", value |-> 0]

NegInf == [kind |-> "-Infinity", value |-> 0]

(* Number.isFinite *)
IsFinite(n) == n.kind = "finite"

----------------------------------------------------------------------------
(* Field and integrator, src/main.js 136-169 *)

BOLTZMANN == 1380649

(* time units per second *)
UnitsPerSecond == 18000

(* computeElectricField(): (voltageKV*1000*fieldPolarity)/max(gap, 1e-5) in V/m *)
computeElectricField(s) ==
  IF ~s.fieldEnabled THEN 0
  ELSE MulDiv(s.voltageKV * s.fieldPolarity * 10000, Scale6, Max(s.plateGapMeters, 10000))

(* drop.mass * state.gravity, line 144 *)
GravityForce(s, d) == MulDiv(d.mass, s.gravity, 10000)

(* drop.chargeCoulombs * E, line 145 *)
ElectricForce(d, field) == MulDiv(d.chargeCoulombs, field, 10000)

(* line 146: a drag coefficient that is not positive is recomputed before use *)
EnsureCoefficients(w) ==
  IF w.drop.dragCoeff <= 0 THEN recomputeDropCoefficients(w) ELSE w

(* -dragCoeff * drop.velocity, line 148 *)
DragForce(d) == -MulDiv(d.dragCoeff, d.velocity, 100)

(* 0.6 * sqrt(2*kB*T*dragCoeff / max(dt, 1e-6)), line 150; 1e-6 s is below one
   time unit, so the floor is the smallest positive duration *)
NoiseStd(s, dragCoeff, dt) ==
  6 * ISqrt(MulDiv(MulDiv(2 * BOLTZMANN, s.temperatureK * dragCoeff, Scale6),
                   UnitsPerSecond \div 1000, Max(dt, 1)))

(* state.noiseBoost * noiseStd * gaussianRandom(), line 151; g in tenths *)
NoiseForce(s, dragCoeff, dt, g) == MulDiv(s.noiseBoost * g, NoiseStd(s, dragCoeff, dt), 1000)

(* lines 159-161: the cap from the noise-free net force *)
SpeedCapOfVt(vtAnalytic) == Max(Max(2 * Abs(vtAnalytic), 20000), BASE_MAX_SPEED \div 4)

SpeedCapOf(deterministicNet, dragCoeff) ==
  SpeedCapOfVt(IF dragCoeff > 0 THEN MulDiv(deterministicNet, 100, dragCoeff) ELSE 0)

(* lines 153-155: velocity after the explicit Euler update, before the cap *)
EulerVelocity(velocity, netForce, mass, dt) ==
  velocity + MulDiv(netForce, dt * 50000, 9 * mass)

(* Faulty variant: the velocity capped from above only *)
CapVelocityUpperOnly(velocity, cap) == Min(velocity, cap)

(* line 162: drop.velocity = clamp(drop.velocity, -speedCap, speedCap) *)
CapVelocity(velocity, cap) == clamp(velocity, -cap, cap)

(* line 164: drop.y + drop.velocity * dt, before the reflection *)
RawPosition(d, dt) == d.y + MulDiv(d.velocity, dt, UnitsPerSecond \div 1000)

(* drop.velocity *= -BOUNCE_DAMPING *)
Damped(velocity) == MulDiv(velocity, -BOUNCE_DAMPING, DampingScale)

(* line 166: reflection at the plate at 0 *)
BounceLow(d, y1) ==
  IF y1 < 0 THEN [d EXCEPT !.y = 0, !.velocity = Damped(d.velocity)]
  ELSE [d EXCEPT !.y = y1]

(* Faulty variant: the reflection at y = plateGapMeters left out *)
BounceHighMissing(d, maxY) == d

(* lines 167-168: reflection at the plate at the gap *)
BounceHigh(d, maxY) ==
  IF d.y > maxY THEN [d EXCEPT !.y = maxY, !.velocity = Damped(d.velocity)] ELSE d

(* lines 164-168: position update and both reflections *)
MoveAndBounce(s, d, dt) == BounceHigh(BounceLow(d, RawPosition(d, dt)), s.plateGapMeters)

(* whether lines 166-168 reflect the drop *)
Reflects(s, d, dt) == RawPosition(d, dt) < 0 \/ RawPosition(d, dt) > s.plateGapMeters

(* lines 162-168, with the capped velocity stored on the drop *)
MovePhase(s, d, dt, cap) ==
  [state |-> s, drop |-> MoveAndBounce(s, d, dt), speedCap |-> cap,
   bounced |-> Reflects(s, d, dt)]

(* lines 147-162: forces, Euler update and cap; d holds the coefficients in use *)
ForcePhase(s, d, dt, g, gravityForce, electricForce) ==
  MovePhase(s,
            [d EXCEPT !.velocity =
               CapVelocity(EulerVelocity(d.velocity,
                                         gravityForce + electricForce + DragForce(d)
                                           + NoiseForce(s, d.dragCoeff, dt, g),
                                         d.mass, dt),
                           SpeedCapOf(gravityForce + electricForce, d.dragCoeff))],
            dt,
            SpeedCapOf(gravityForce + electricForce, d.dragCoeff))

(* integrateStep(dt, E) with Gaussian sample g: the globals afterwards, the local
   speedCap, and whether a plate was hit.  Gravity and electric force are read
   (lines 144-145) before the coefficients are ensured (line 146). *)
integrateStep(w, dt, field, g) ==
  ForcePhase(w.state, EnsureCoefficients(w).drop, dt, g,
             GravityForce(w.state, w.drop), ElectricForce(w.drop, field))

----------------------------------------------------------------------------
(* Configuration entry points, src/main.js 305-310 and 357-368 *)

(* Faulty variant: the drop kept at its absolute height *)
GapPositionAbsolute(y, previousGap, meters, preservePosition) ==
  IF preservePosition /\ previousGap > 0
  THEN clamp(y, 0, meters)
  ELSE MulDiv(meters, 35, 100)

(* the new drop.y of setPlateGap *)
GapPosition(y, previousGap, meters, preservePosition) ==
  IF preservePosition /\ previousGap > 0
  THEN MulDiv(clamp(MulDiv(y, Scale6, previousGap), 0, Scale6), meters, Scale6)
  ELSE MulDiv(meters, 35, 100)

(* Number.isFinite(mmValue) ? mmValue : previousGap*1000, then /1000 and the clamp *)
GapMeters(mm, previousGap) ==
  clamp(IF IsFinite(mm) THEN mm.value * 100000 ELSE previousGap,
        MIN_GAP_METERS, MAX_GAP_METERS)

(* setPlateGap(mmValue, {preservePosition}); mm is Fin(tenths of mm) or non-finite *)
setPlateGap(w, mm, preservePosition) ==
  W([w.state EXCEPT !.plateGapMeters = GapMeters(mm, w.state.plateGapMeters)],
    [w.drop EXCEPT !.y = GapPosition(w.drop.y, w.state.plateGapMeters,
                                     GapMeters(mm, w.state.plateGapMeters),
                                     preservePosition)])

(* Math.round of a value in tenths *)
MathRound(t) == (t + 5) \div 10

(* lines 309: the stored multiple and its charge in coulombs *)
StoreCharge(d, clamped) ==
  [d EXCEPT !.chargeMultiple = clamped, !.chargeCoulombs = clamped * ELECTRON_CHARGE]

(* Faulty variant: Math.round without the clamp *)
setChargeMultipleUnclamped(w, m) == W(w.state, StoreCharge(w.drop, MathRound(m)))

(* setChargeMultiple(m), m in tenths of e *)
setChargeMultiple(w, m) == W(w.state, StoreCharge(w.drop, MathRound(clamp(m, -250, 250))))

(* line 310 after recomputeDropCoefficients(): the position clamp and the velocity *)
SettleDrop(w, preserveVelocity) ==
  W(w.state,
    [w.drop EXCEPT !.y = clamp(w.drop.y, 0, w.state.plateGapMeters),
                   !.velocity = IF preserveVelocity THEN @ ELSE 0])

(* Faulty variant: the radius stored without recomputeDropCoefficients() *)
setRadiusMicronsStale(w, microns, preserveVelocity) ==
  SettleDrop(W([w.state EXCEPT !.radiusMicrons = clamp(microns, 30, 150)], w.drop),
             preserveVelocity)

(* setRadiusMicrons(microns, {preserveVelocity}) *)
setRadiusMicrons(w, microns, preserveVelocity) ==
  SettleDrop(recomputeDropCoefficients(
               W([w.state EXCEPT !.radiusMicrons = clamp(microns, 30, 150)], w.drop)),
             preserveVelocity)

(* line 367: drop.y = state.plateGapMeters * 0.35; drop.velocity = 0 *)
PlaceAtStart(w) ==
  W(w.state, [w.drop EXCEPT !.y = MulDiv(w.state.plateGapMeters, 35, 100), !.velocity = 0])

(* resetDrop(false) *)
resetDropPlain(w) == PlaceAtStart(setRadiusMicrons(w, w.state.radiusMicrons, FALSE))

(* resetDrop(true) with the four random draws already rounded: radius (0.01 um),
   voltage (0.01 kV), charge (e), gap (0.1 mm) *)
resetDropRandom(w, randomRadius, randomVoltage, randCharge, randomGap) ==
  PlaceAtStart(
    setPlateGap(
      setRadiusMicrons(
        setChargeMultiple(W([w.state EXCEPT !.voltageKV = randomVoltage], w.drop),
                          randCharge * 10),
        randomRadius, FALSE),
      Fin(randomGap), FALSE))

(* state.plateGapMeters*1000, the argument bootstrap() and the reset handler pass *)
GapMillimetres(w) == Fin(w.state.plateGapMeters \div 100000)

(* bootstrap(), line 373, on the globals *)
bootstrap(w) ==
  resetDropPlain(
    recomputeDropCoefficients(
      setChargeMultiple(setPlateGap(w, GapMillimetres(w), FALSE),
                        w.drop.chargeMultiple * 10)))

----------------------------------------------------------------------------
(* Bounds of the model and the inputs it draws *)

MaxEvents == 2

MaxFrames == 1

(* update() arguments in 1/4096 s: non-finite, negative, zero, 2^-12 s (less
   than a sub-step), 2^-10 s (between one and two sub-steps), 2^-4 s (more
   than MAX_FRAME_DT) *)
Durations == {NaN, PosInf, NegInf, Fin(-1), Fin(0), Fin(1), Fin(4), Fin(256)}

(* gaussianRandom() samples, tenths of a standard deviation *)
GaussSamples == {-30, 0, 30}

VoltageInputs == {0, 900}

GapInputs == {0, 120}

RadiusInputs == {0, 200}

ChargeInputs == {-300, 25, 254}

TemperatureInputs == {0, 400}

NoiseInputs == {0, 500}

ViscosityInputs == {0, 250}

(* Math.random() outcomes in resetDrop(true), after its rounding:
   <<randomRadius, voltageKV, randCharge, randomGap>> *)
RandomDrops == {<<40, 50, -13, 80>>, <<130, 600, 2, 20>>, <<77, 333, 13, 55>>}

----------------------------------------------------------------------------
(* Initial state: the module-level literals, src/main.js 32-57 *)

InitialState ==
  [running |-> TRUE, voltageKV |-> 200, plateGapMeters |-> 5000000,
   radiusMicrons |-> 90, viscosity |-> 180, temperatureK |-> 295,
   noiseBoost |-> 100, fieldEnabled |-> TRUE, gravity |-> 981,
   pulseTimer |-> TZero, fieldPolarity |-> 1]

InitialDrop ==
  [y |-> MulDiv(5000000, 35, 100), velocity |-> 0, chargeMultiple |-> -8,
   chargeCoulombs |-> -8 * ELECTRON_CHARGE, radiusMeters |-> 900,
   mass |-> 0, slipFactor |-> Scale6, dragCoeff |-> 0]

Init ==
  /\ state = InitialState
  /\ drop = InitialDrop
  /\ pc = "boot"
  /\ remaining = TZero
  /\ E = 0
  /\ steps = 0
  /\ speedCap = 0
  /\ bounced = FALSE
  /\ lastOp = "load"
  /\ lastDt = Fin(0)
  /\ stepDt = TZero
  /\ elapsed = TZero
  /\ sincePulse = PulseSeconds
  /\ events = 0
  /\ frames = 0

(* the globals after an operation *)
Commit(w) == state' = w.state /\ drop' = w.drop

driverIdle ==
  UNCHANGED <<pc, remaining, E, steps, speedCap, bounced, lastDt, stepDt, elapsed, frames>>

(* a UI event handler runs between frames *)
Handle(name) ==
  /\ pc = "idle"
  /\ events' = events + 1
  /\ lastOp' = name
  /\ sincePulse' = IF name = "pulse" THEN TZero ELSE sincePulse
  /\ driverIdle

Event(name) == events < MaxEvents /\ Handle(name)

(* bootstrap() at module load, line 375 *)
Bootstrap ==
  /\ pc = "boot"
  /\ Commit(bootstrap(W(state, drop)))
  /\ pc' = "idle"
  /\ lastOp' = "bootstrap"
  /\ UNCHANGED <<remaining, E, steps, speedCap, bounced, lastDt, stepDt, elapsed,
                 sincePulse, events, frames>>

----------------------------------------------------------------------------
(* Frame driver, src/main.js 183-200 *)

(* the double n / 4096, 0 < n < 2^13 *)
DblOfDuration(n) ==
  [i \in 1..LimbCount |->
     IF i = 4 THEN (n * 8) % LimbBase ELSE IF i = 5 THEN (n * 8) \div LimbBase ELSE 0]

(* Faulty variant: Math.max(0, dt) without the Number.isFinite test, NaN read as 0 *)
SafeDtUnsanitised(dt) ==
  IF dt = PosInf THEN MAX_FRAME_DT
  ELSE IF IsFinite(dt) /\ dt.value > 0 THEN DblOfDuration(dt.value) ELSE TZero

(* Number.isFinite(dt) ? Math.max(0, dt) : 0 *)
SafeDt(dt) == IF IsFinite(dt) /\ dt.value > 0 THEN DblOfDuration(dt.value) ELSE TZero

(* let remaining = Math.min(safeDt, MAX_FRAME_DT), line 187 *)
FrameTime(dt) == TMin(SafeDt(dt), MAX_FRAME_DT)

(* Faulty variant: the pause test of line 186 left out *)
ReturnsEarlyRunningOnly(s, dt) == FrameTime(dt) = TZero

(* the early returns of lines 186 and 188 *)
ReturnsEarly(s, dt) == ~s.running \/ FrameTime(dt) = TZero

(* update(dt) up to the while loop: the early returns, or entry into the loop *)
Frame(dt) ==
  /\ pc = "idle"
  /\ frames' = frames + 1
  /\ lastOp' = "update"
  /\ lastDt' = dt
  /\ steps' = 0
  /\ elapsed' = TZero
  /\ E' = computeElectricField(state)
  /\ IF ReturnsEarly(state, dt)
     THEN pc' = "idle" /\ remaining' = remaining
     ELSE pc' = "loop" /\ remaining' = FrameTime(dt)
  /\ UNCHANGED <<state, drop, speedCap, bounced, stepDt, sincePulse, events>>

Update(dt) == frames < MaxFrames /\ Frame(dt)

(* Faulty variant: the countdown without the polarity reset of line 193 *)
PulseTickNoReset(s, dt) ==
  [s EXCEPT !.pulseTimer = IF TLess(@, dt) THEN TZero ELSE DblSub(@, dt)]

(* line 192: Math.max(0, state.pulseTimer - stepDt) *)
PulseTimerAfter(s, dt) ==
  IF TLess(s.pulseTimer, dt) THEN TZero ELSE DblSub(s.pulseTimer, dt)

(* lines 192-193: the pulse countdown and the return to the default polarity *)
PulseTick(s, dt) ==
  [s EXCEPT !.pulseTimer = PulseTimerAfter(s, dt),
            !.fieldPolarity = IF PulseTimerAfter(s, dt) = TZero /\ s.fieldPolarity # 1
                              THEN 1 ELSE @]

(* a sub-step duration in the time unit of the physics, to the nearest unit *)
StepUnits(t) ==
  (MulDiv((t[3] \div 2) + t[4] * 32768, 2 * UnitsPerSecond, 1073741824) + 1) \div 2

(* the globals and locals after integrateStep returned r with field E *)
CommitStep(r, field) ==
  /\ state' = r.state
  /\ drop' = r.drop
  /\ speedCap' = r.speedCap
  /\ bounced' = r.bounced
  /\ E' = field

(* lines 194-195 on the state after the pulse tick *)
FieldAndStep(s, d, dt, g) ==
  CommitStep(integrateStep(W(s, d), StepUnits(dt), computeElectricField(s), g),
             computeElectricField(s))

(* one iteration of update()'s while loop, and the return when it was the last *)
SubStep(g) ==
  /\ pc = "loop"
  /\ remaining # TZero
  /\ stepDt' = TMin(remaining, SUBSTEP_DT)
  /\ FieldAndStep(PulseTick(state, TMin(remaining, SUBSTEP_DT)), drop,
                  TMin(remaining, SUBSTEP_DT), g)
  /\ remaining' = DblSub(remaining, TMin(remaining, SUBSTEP_DT))
  /\ pc' = IF DblSub(remaining, TMin(remaining, SUBSTEP_DT)) # TZero THEN "loop" ELSE "idle"
  /\ steps' = steps + 1
  /\ elapsed' = TAdd(elapsed, TMin(remaining, SUBSTEP_DT))
  /\ sincePulse' = IF TLess(sincePulse, PulseSeconds)
                   THEN TAdd(sincePulse, TMin(remaining, SUBSTEP_DT)) ELSE sincePulse
  /\ lastOp' = "integrateStep"
  /\ UNCHANGED <<lastDt, events, frames>>

----------------------------------------------------------------------------
(* UI event handlers, src/main.js 313-355.  A range or number control
   holds a decimal numeral or nothing, and Number("") is 0: every typed value
   is a finite number, in or out of the control's range. *)

(* applyVoltage, line 315 *)
applyVoltage(w, v) == W([w.state EXCEPT !.voltageKV = clamp(v, 0, 800)], w.drop)

ApplyVoltage(v) == Event("applyVoltage") /\ Commit(applyVoltage(W(state, drop), v))

(* applyGap, line 319; v in tenths of mm *)
applyGap(w, v) ==
  setPlateGap(w, Fin(clamp(v, MIN_GAP_METERS \div 100000, MAX_GAP_METERS \div 100000)),
              TRUE)

ApplyGap(v) == Event("applyGap") /\ Commit(applyGap(W(state, drop), v))

(* applyRadius, line 323 *)
applyRadius(w, v) == setRadiusMicrons(w, clamp(v, 30, 150), TRUE)

ApplyRadius(v) == Event("applyRadius") /\ Commit(applyRadius(W(state, drop), v))

(* applyCharge, line 327; v in tenths of e *)
applyCharge(w, v) == setChargeMultiple(w, clamp(v, -250, 250))

ApplyCharge(v) == Event("applyCharge") /\ Commit(applyCharge(W(state, drop), v))

(* Faulty variant: the typed temperature stored as it is *)
applyTempUnclamped(w, v) == W([w.state EXCEPT !.temperatureK = v], w.drop)

(* applyTemp, line 331 *)
applyTemp(w, v) == W([w.state EXCEPT !.temperatureK = clamp(v, 260, 330)], w.drop)

ApplyTemp(v) == Event("applyTemp") /\ Commit(applyTemp(W(state, drop), v))

(* applyNoise, line 335 *)
applyNoise(w, v) == W([w.state EXCEPT !.noiseBoost = clamp(v, 0, 200)], w.drop)

ApplyNoise(v) == Event("applyNoise") /\ Commit(applyNoise(W(state, drop), v))

(* Faulty variant: the viscosity stored without recomputeDropCoefficients() *)
applyViscosityStale(w, v) == W([w.state EXCEPT !.viscosity = clamp(v, 100, 300)], w.drop)

(* applyViscosity, line 339; v in hundredths of 1e-5 Pa s *)
applyViscosity(w, v) ==
  recomputeDropCoefficients(W([w.state EXCEPT !.viscosity = clamp(v, 100, 300)], w.drop))

ApplyViscosity(v) == Event("applyViscosity") /\ Commit(applyViscosity(W(state, drop), v))

(* fieldToggle change, line 342 *)
fieldToggle(w, checked) == W([w.state EXCEPT !.fieldEnabled = checked], w.drop)

FieldToggle(checked) == Event("fieldToggle") /\ Commit(fieldToggle(W(state, drop), checked))

(* playPauseBtn click, line 346 *)
TogglePlay ==
  /\ Handle("playPause")
  /\ state' = [state EXCEPT !.running = ~@]
  /\ UNCHANGED drop

PlayPause == events < MaxEvents /\ TogglePlay

(* newDropBtn click, line 347 *)
NewDrop(randomRadius, randomVoltage, randCharge, randomGap) ==
  /\ Event("newDrop")
  /\ Commit(resetDropRandom(W(state, drop), randomRadius, randomVoltage, randCharge, randomGap))

(* pulseBtn click, line 348: 0.8 s countdown *)
PressPulse ==
  /\ Handle("pulse")
  /\ state' = [state EXCEPT !.fieldPolarity = -@, !.pulseTimer = PulseSeconds]
  /\ UNCHANGED drop

Pulse == events < MaxEvents /\ PressPulse

(* zeroBtn click, line 349 *)
ZeroVelocity ==
  /\ Event("zeroVelocity")
  /\ drop' = [drop EXCEPT !.velocity = 0]
  /\ UNCHANGED state

(* Faulty variant: the pulse left running by the reset handler *)
ResetParametersKeepPulse(s) ==
  [s EXCEPT !.running = TRUE, !.voltageKV = 200, !.plateGapMeters = 5000000,
            !.radiusMicrons = 90, !.viscosity = 180, !.temperatureK = 295,
            !.noiseBoost = 100, !.fieldEnabled = TRUE, !.gravity = 981]

(* The parameters the reset handler assigns, line 351 *)
ResetParameters(s) ==
  [s EXCEPT !.running = TRUE, !.voltageKV = 200, !.plateGapMeters = 5000000,
            !.radiusMicrons = 90, !.viscosity = 180, !.temperatureK = 295,
            !.noiseBoost = 100, !.fieldEnabled = TRUE, !.gravity = 981,
            !.pulseTimer = TZero, !.fieldPolarity = 1]

(* setPlateGap(state.plateGapMeters*1000, {preservePosition:false}) *)
RestoreGap(w) == setPlateGap(w, GapMillimetres(w), FALSE)

(* setRadiusMicrons(state.radiusMicrons, {preserveVelocity:false}) *)
RestoreRadius(w) == setRadiusMicrons(w, w.state.radiusMicrons, FALSE)

(* the resetBtn click handler on the globals, line 351 *)
fullReset(w) ==
  resetDropPlain(
    RestoreGap(RestoreRadius(setChargeMultiple(W(ResetParameters(w.state), w.drop), -80))))

(* resetBtn click, line 351 *)
FullReset ==
  /\ Event("reset")
  /\ Commit(fullReset(W(state, drop)))

(* pointerdown on the drop, lines 353-354: shift adds, plain removes one e *)
ClickDrop(shiftKey) ==
  /\ Event("clickDrop")
  /\ Commit(setChargeMultiple(W(state, drop),
                              (drop.chargeMultiple + (IF shiftKey THEN 1 ELSE -1)) * 10))

----------------------------------------------------------------------------

Next ==
  \/ Bootstrap
  \/ \E dt \in Durations : Update(dt)
  \/ \E g \in GaussSamples : SubStep(g)
  \/ \E v \in VoltageInputs : ApplyVoltage(v)
  \/ \E v \in GapInputs : ApplyGap(v)
  \/ \E v \in RadiusInputs : ApplyRadius(v)
  \/ \E v \in ChargeInputs : ApplyCharge(v)
  \/ \E v \in TemperatureInputs : ApplyTemp(v)
  \/ \E v \in NoiseInputs : ApplyNoise(v)
  \/ \E v \in ViscosityInputs : ApplyViscosity(v)
  \/ \E c \in BOOLEAN : FieldToggle(c)
  \/ PlayPause
  \/ \E rd \in RandomDrops : NewDrop(rd[1], rd[2], rd[3], rd[4])
  \/ Pulse
  \/ ZeroVelocity
  \/ FullReset
  \/ \E k \in BOOLEAN : ClickDrop(k)

Spec == Init /\ [][Next]_vars

----------------------------------------------------------------------------
(* The integrator called directly.  integrateStep(dt, E) takes its duration
   and field from the caller (update() in src/main.js 194-195, the loop of
   src/dev/physics-smoke-test.js 80-86) and reads the velocity the caller
   left in drop.velocity; here the caller passes any of them, between the
   configuration calls. *)

MaxSteps == 3

(* sub-step durations in (0, SUBSTEP_DT] *)
StepDurations == {1, 10}

(* field values handed to integrateStep, V/m *)
StepFields == {-80000000, 0, 80000000}

(* velocities the drop starts with, um/s *)
StartVelocities == {-2000000, 0, 2000000}

(* drops made by resetDrop(true): <<randomRadius, voltageKV, randCharge, randomGap>> *)
StepSetups == {<<40, 50, -13, 20>>, <<90, 200, 8, 50>>}

StepGapInputs == {100}

StepRadiusInputs == {200}

(* the globals once bootstrap() has returned *)
BootWorld == bootstrap(W(InitialState, InitialDrop))

WithVelocity(w, v0) == W(w.state, [w.drop EXCEPT !.velocity = v0])

(* the globals hold the world w *)
Holds(w) == state = w.state /\ drop = w.drop

InitStep ==
  /\ \E c \in StepSetups, v0 \in StartVelocities :
       Holds(WithVelocity(resetDropRandom(BootWorld, c[1], c[2], c[3], c[4]), v0))
  /\ pc = "idle"
  /\ remaining = TZero
  /\ E = 0
  /\ steps = 0
  /\ speedCap = 0
  /\ bounced = FALSE
  /\ lastOp = "start"
  /\ lastDt = Fin(0)
  /\ stepDt = TZero
  /\ elapsed = TZero
  /\ sincePulse = PulseSeconds
  /\ events = 0
  /\ frames = 0

(* integrateStep(dt, field) with the noise sample g *)
StepAny(dt, field, g) ==
  /\ pc = "idle"
  /\ steps < MaxSteps
  /\ CommitStep(integrateStep(W(state, drop), dt, field, g), field)
  /\ steps' = steps + 1
  /\ lastOp' = "integrateStep"
  /\ UNCHANGED <<pc, remaining, lastDt, stepDt, elapsed, sincePulse, events, frames>>

NextStep ==
  \/ \E dt \in StepDurations, field \in StepFields, g \in GaussSamples : StepAny(dt, field, g)
  \/ \E v \in StepGapInputs : ApplyGap(v)
  \/ \E v \in StepRadiusInputs : ApplyRadius(v)
  \/ \E rd \in RandomDrops : NewDrop(rd[1], rd[2], rd[3], rd[4])
  \/ FullReset

SpecStep == InitStep /\ [][NextStep]_vars

----------------------------------------------------------------------------
(* Noise-free runs of one frame: the controls set noise-boost to 0 and choose
   charge, field switch, radius and viscosity after bootstrap(); then update()
   runs its sub-steps. *)

(* <<charge in tenths of e, fieldToggle, radius, viscosity>> *)
RunSetups ==
  {<<0, FALSE, 90, 180>>, <<0, FALSE, 150, 100>>, <<-80, TRUE, 90, 180>>,
   <<30, TRUE, 30, 300>>}

RunDurations == {Fin(8), Fin(256)}

RunWorld(c) ==
  applyViscosity(
    applyRadius(fieldToggle(applyCharge(applyNoise(BootWorld, 0), c[1]), c[2]), c[3]),
    c[4])

InitRun ==
  /\ \E c \in RunSetups : Holds(RunWorld(c))
  /\ pc = "idle"
  /\ remaining = TZero
  /\ E = 0
  /\ steps = 0
  /\ speedCap = 0
  /\ bounced = FALSE
  /\ lastOp = "applyViscosity"
  /\ lastDt = Fin(0)
  /\ stepDt = TZero
  /\ elapsed = TZero
  /\ sincePulse = PulseSeconds
  /\ events = 0
  /\ frames = 0

NextRun ==
  \/ \E dt \in RunDurations : Update(dt)
  \/ \E g \in GaussSamples : SubStep(g)

SpecRun == InitRun /\ [][NextRun]_vars

----------------------------------------------------------------------------
(* A pulse run to its end: after bootstrap() the pulse and play/pause buttons
   are pressed before or between the first frames, and slow frames (loop()
   passes 0.05 s for each of them) follow until the 0.8 s countdown of the
   last press has run out. *)

MaxPulseEvents == 3

(* the buttons are pressed before this many frames have run *)
PressFrames == 3

MaxPulseFrames == 19

(* update() arguments of slow frames, in 1/4096 s: above MAX_FRAME_DT *)
PulseDurations == {Fin(256)}

InitPulse ==
  /\ Holds(BootWorld)
  /\ pc = "idle"
  /\ remaining = TZero
  /\ E = 0
  /\ steps = 0
  /\ speedCap = 0
  /\ bounced = FALSE
  /\ lastOp = "bootstrap"
  /\ lastDt = Fin(0)
  /\ stepDt = TZero
  /\ elapsed = TZero
  /\ sincePulse = PulseSeconds
  /\ events = 0
  /\ frames = 0

NextPulse ==
  \/ events < MaxPulseEvents /\ frames < PressFrames /\ PressPulse
  \/ events < MaxPulseEvents /\ frames < PressFrames /\ TogglePlay
  \/ \E dt \in PulseDurations : frames < MaxPulseFrames /\ Frame(dt)
  \/ SubStep(0)

SpecPulse == InitPulse /\ [][NextPulse]_vars

----------------------------------------------------------------------------
(* setPlateGap called directly, with any argument and either option, on
   drops that sub-steps have moved. *)

(* mmValue in tenths of mm: non-finite, below, inside and above the range *)
GapArguments == {NaN, PosInf, Fin(0), Fin(35), Fin(64), Fin(120)}

GapFields == {-80000000, 80000000}

SetPlateGap(mm, preservePosition) ==
  /\ Event("setPlateGap")
  /\ Commit(setPlateGap(W(state, drop), mm, preservePosition))

NextGap ==
  \/ \E field \in GapFields : StepAny(10, field, 0)
  \/ \E mm \in GapArguments, preservePosition \in BOOLEAN : SetPlateGap(mm, preservePosition)

SpecGap == InitStep /\ [][NextGap]_vars

----------------------------------------------------------------------------
(* Properties *)

(* C1: in every state reached after bootstrap by integrator sub-steps (any
   duration up to SUBSTEP_DT, any field, any noise sample, any starting
   velocity) and by set-gap, set-radius, new-drop and full-reset calls, the
   position satisfies 0 <= y <= plateGapMeters. *)
C1_PositionWithinGap == 0 <= drop.y /\ drop.y <= state.plateGapMeters

(* a sub-step after a configuration call ended with the reflection at the
   far plate *)
C1_Witness ==
  lastOp = "integrateStep" /\ bounced /\ events > 0 /\ drop.y = state.plateGapMeters

(* line 159: vtAnalytic from the forces that act on the drop under the field E *)
TerminalVelocity ==
  MulDiv(GravityForce(state, drop) + ElectricForce(drop, E), 100, drop.dragCoeff)

SettleSteps == 10

(* C2: with noise-boost 0 and fixed parameters, sub-steps of SUBSTEP_DT from
   rest away from the plates bring the velocity to within 1% of the terminal
   velocity (mass*g + charge*E)/dragCoeff after several drag time-constants
   (one sub-step lasts more than ten of them), for as long as the drop has
   not reached a plate. *)
C2_ConvergesToTerminalVelocity ==
  (/\ lastOp = "integrateStep"
   /\ state.noiseBoost = 0
   /\ steps >= SettleSteps
   /\ 0 < drop.y
   /\ drop.y < state.plateGapMeters)
    => 100 * Abs(drop.velocity - TerminalVelocity) <= Abs(TerminalVelocity)

(* C3: with noise-boost 0, the field disabled and charge 0, a drop starting at
   rest inside the gap moves monotonically toward position 0: no sub-step
   increases the position, and every sub-step decreases it until it is 0. *)
C3_FallsMonotonicallyToZero ==
  [][(/\ lastOp' = "integrateStep"
      /\ state.noiseBoost = 0
      /\ ~state.fieldEnabled
      /\ drop.chargeMultiple = 0)
       => (drop'.y <= drop.y /\ (drop.y > 0 => drop'.y < drop.y))]_vars

(* max(2*|vt|, 0.02, 0.25*0.12) m/s for the sub-step that used the field E *)
ClaimedSpeedCap == Max(Max(2 * Abs(TerminalVelocity), 20000), 30000)

(* C4: after every integrateStep, for any duration, field, noise sample and
   prior velocity, |velocity| <= speedCap = max(2*|vt|, 0.02, 0.25*0.12) m/s
   computed from that sub-step's forces, also when the sub-step ends with a
   plate bounce. *)
C4_SpeedWithinCap ==
  lastOp = "integrateStep"
    => (speedCap = ClaimedSpeedCap /\ Abs(drop.velocity) <= ClaimedSpeedCap)

(* a sub-step that ended with a bounce and left the drop moving *)
C4_Witness == lastOp = "integrateStep" /\ bounced /\ drop.velocity # 0 /\ steps > 1

BadDurations == {NaN, PosInf, NegInf, Fin(-1)}

(* C5: update(dt) with a NaN, infinite or negative duration treats it as 0: the
   loop is not entered (no integrateStep), and position, velocity, pulseTimer
   and fieldPolarity are as before the call; +Infinity does not become a full
   frame. *)
C5_BadDurationIsZero ==
  [][\A dt \in BadDurations :
       Update(dt) => (pc' = "idle" /\ steps' = 0 /\ drop' = drop /\ state' = state)]_vars

(* update(+Infinity) returned while running with a pulse under way *)
C5_Witness ==
  /\ lastOp = "update"
  /\ lastDt = PosInf
  /\ pc = "idle"
  /\ state.running
  /\ state.pulseTimer # TZero

(* C6: after any sequence of charge changes (control input of any value,
   clicks on the drop, new drop, full reset) chargeMultiple is an integer in
   [-25, 25] and chargeCoulombs = chargeMultiple * ELECTRON_CHARGE; a click
   that would leave the range leaves the value at the bound. *)
C6_ChargeQuantised ==
  /\ [](/\ drop.chargeMultiple \in -25..25
        /\ drop.chargeCoulombs = drop.chargeMultiple * ELECTRON_CHARGE)
  /\ [][\A k \in BOOLEAN :
          ClickDrop(k) =>
            drop'.chargeMultiple
              = clamp(drop.chargeMultiple + (IF k THEN 1 ELSE -1), -25, 25)]_vars

(* a shift-click on a drop that already carried +25 e *)
C6_Witness == lastOp = "clickDrop" /\ events = 2 /\ drop.chargeMultiple = 25

(* the four cached coefficients of a drop *)
CoefficientsOf(d) == <<d.radiusMeters, d.mass, d.slipFactor, d.dragCoeff>>

(* C7: at the start of every integrateStep after bootstrap the cached radius,
   mass, slip factor and drag coefficient equal the coefficient model at the
   current state.radiusMicrons and state.viscosity, whatever radius,
   viscosity, new-drop and reset actions came before. *)
C7_CoefficientsFresh ==
  pc = "loop"
    => CoefficientsOf(drop) = CoefficientsOf(recomputeDropCoefficients(W(state, drop)).drop)

(* the loop is about to step after both radius and viscosity were changed *)
C7_Witness ==
  pc = "loop" /\ remaining # TZero /\ state.radiusMicrons = 30 /\ state.viscosity = 100

(* C8 as stated: mass > 0 and dragCoeff > 0 in every state of the drop, from
   its creation on. *)
C8_PositiveFromCreation == drop.mass > 0 /\ drop.dragCoeff > 0

(* C8 amended: mass > 0 and dragCoeff > 0 in every state once bootstrap() has
   run, hence at every integrateStep. *)
C8_PositiveAfterBootstrap == pc # "boot" => (drop.mass > 0 /\ drop.dragCoeff > 0)

(* a sub-step ran on the smallest drop in the thinnest air *)
C8_Witness ==
  lastOp = "integrateStep" /\ state.radiusMicrons = 30 /\ state.viscosity = 100

(* C9: a full reset from any reachable state yields exactly the defaults:
   2.0 kV, 5 mm, 0.9 um, 1.8e-5 Pa s, 295 K, noise-boost 1, charge -8,
   running, field enabled, polarity +1, pulse timer 0, position 0.35 * gap,
   velocity 0, whatever the state before. *)
C9_ResetYieldsDefaults ==
  lastOp = "reset" =>
    /\ state = [running |-> TRUE, voltageKV |-> 200, plateGapMeters |-> 5000000,
                radiusMicrons |-> 90, viscosity |-> 180, temperatureK |-> 295,
                noiseBoost |-> 100, fieldEnabled |-> TRUE, gravity |-> 981,
                pulseTimer |-> TZero, fieldPolarity |-> 1]
    /\ drop = [y |-> 1750000, velocity |-> 0, chargeMultiple |-> -8,
               chargeCoulombs |-> -12816, radiusMeters |-> 900, mass |-> 262245,
               slipFactor |-> 1090783, dragCoeff |-> 27994]

(* a reset after a frame of sub-steps and another event *)
C9_Witness == lastOp = "reset" /\ events = 2 /\ frames = 1 /\ steps > 1

(* C10: right after every new-drop and every reset action the position is
   0.35 * (current gap), the velocity is 0, mass and drag coefficient match
   the new radius, and charge and radius are the newly drawn (new drop) or
   default (reset) ones. *)
C10_NewDropAndResetReinitialise ==
  lastOp \in {"newDrop", "reset"} =>
    /\ drop.y = MulDiv(state.plateGapMeters, 35, 100)
    /\ drop.velocity = 0
    /\ drop.radiusMeters = state.radiusMicrons * 10
    /\ drop.mass = MassOf(state.radiusMicrons * 10)
    /\ drop.dragCoeff
         = DragCoeffOf(state.viscosity, state.radiusMicrons * 10,
                       computeSlipCorrection(state.radiusMicrons * 10))
    /\ lastOp = "newDrop" =>
         \E rd \in RandomDrops :
           /\ state.radiusMicrons = rd[1]
           /\ state.voltageKV = rd[2]
           /\ drop.chargeMultiple = rd[3]
           /\ state.plateGapMeters = rd[4] * 100000
    /\ lastOp = "reset" => (state.radiusMicrons = 90 /\ drop.chargeMultiple = -8)

(* a new drop made after a frame of sub-steps moved the previous one *)
C10_Witness == lastOp = "newDrop" /\ frames = 1 /\ steps > 1 /\ events = 2

(* C11: in every state, whatever values were typed into the controls (in or
   out of their ranges) and after new-drop and full-reset, the gap lies in
   [2 mm, 10 mm], the radius in [0.3, 1.5] um, the voltage in [0, 8] kV, the
   temperature in [260, 330] K and the noise boost in [0, 2]. *)
C11_ParametersInRange ==
  /\ state.plateGapMeters \in MIN_GAP_METERS..MAX_GAP_METERS
  /\ state.radiusMicrons \in 30..150
  /\ state.voltageKV \in 0..800
  /\ state.temperatureK \in 260..330
  /\ state.noiseBoost \in 0..200

(* a gap of 12 mm and a temperature of 400 K were typed and both were clamped *)
C11_Witness ==
  /\ lastOp = "applyTemp"
  /\ state.temperatureK = 330
  /\ state.plateGapMeters = MAX_GAP_METERS

(* the relative position y / gap of the drop, in millionths *)
RelativePosition(y, gap) == MulDiv(y, Scale6, gap)

(* C12: setPlateGap(mm) stores the gap clamp(mm/1000, 0.002, 0.01) m, and the
   previous gap when mm is not finite; with preservePosition the relative
   position y/gap of the drop is the same after the call as before it (to
   the last digit of the fixed-point quotient), without it the position
   becomes 0.35 times the new gap. *)
C12_SetPlateGap ==
  [][\A mm \in GapArguments, preservePosition \in BOOLEAN :
       SetPlateGap(mm, preservePosition) =>
         /\ state'.plateGapMeters =
              (IF IsFinite(mm)
               THEN clamp(mm.value * 100000, MIN_GAP_METERS, MAX_GAP_METERS)
               ELSE state.plateGapMeters)
         /\ preservePosition =>
              Abs(RelativePosition(drop'.y, state'.plateGapMeters)
                  - RelativePosition(drop.y, state.plateGapMeters)) <= 1
         /\ ~preservePosition => drop'.y = MulDiv(state'.plateGapMeters, 35, 100)]_vars

(* the gap was set to 3.5 mm around a drop that sub-steps had moved away from
   its starting height, and the drop kept its relative position *)
C12_Witness ==
  /\ lastOp = "setPlateGap"
  /\ steps > 0
  /\ state.plateGapMeters = 3500000
  /\ drop.y > 0
  /\ drop.y < state.plateGapMeters
  /\ drop.y # MulDiv(state.plateGapMeters, 35, 100)

(* C13: for a running simulation and a finite d > 0, update(d) invokes
   integrateStep once per sub-step; every sub-step has 0 < dt <= SUBSTEP_DT,
   every sub-step but possibly the last has dt = SUBSTEP_DT, the loop ends
   after at most 90 sub-steps, and then the durations sum to
   min(d, MAX_FRAME_DT). *)
C13_SubStepsCoverFrame ==
  /\ steps <= 90
  /\ steps > 0 => stepDt # TZero /\ ~TLess(SUBSTEP_DT, stepDt)
  /\ (steps > 0 /\ pc = "loop") => stepDt = SUBSTEP_DT
  /\ (steps > 0 /\ pc = "idle") => elapsed = FrameTime(lastDt)

(* a and b differ by at most k ticks of 2^-63 s *)
Near(a, b, k) == ~TLess(TAdd(a, TSmall(k)), b) /\ ~TLess(TAdd(b, TSmall(k)), a)

(* half the spacing of the doubles in [0.5, 1), 2^-54 s, in ticks *)
HalfUlp == 512

(* C14: after a pulse press, while the simulation runs, every sub-step
   lowers the countdown by that sub-step's duration (to the rounding of one
   double subtraction) and never below 0; the polarity is +1 again as soon as
   the sub-step durations accumulated since the press reach 0.8 s; and the
   field passed to integrateStep in the sub-step in which the countdown
   reaches 0 already has the default polarity, also in the middle of a
   frame. *)
C14_PulseEndsOnTime ==
  /\ [](~TLess(sincePulse, PulseSeconds) => state.fieldPolarity = 1)
  /\ [][SubStep(0) =>
          /\ IF TLess(state.pulseTimer, stepDt')
             THEN state'.pulseTimer = TZero
             ELSE Near(state'.pulseTimer, TSub(state.pulseTimer, stepDt'), HalfUlp)
          /\ (state.pulseTimer # TZero /\ state'.pulseTimer = TZero) =>
               E' = computeElectricField([state EXCEPT !.fieldPolarity = 1])]_vars

(* the parts of C14 that do not depend on when the countdown ends *)
C14_CountdownAndField ==
  [][SubStep(0) =>
       /\ IF TLess(state.pulseTimer, stepDt')
          THEN state'.pulseTimer = TZero
          ELSE Near(state'.pulseTimer, TSub(state.pulseTimer, stepDt'), HalfUlp)
       /\ (state.pulseTimer # TZero /\ state'.pulseTimer = TZero) =>
            E' = computeElectricField([state EXCEPT !.fieldPolarity = 1])]_vars

(* C15: in every state between operations, and inside update()'s loop,
   fieldPolarity is +1 or -1, and -1 only while the countdown is above 0;
   also when the pulse button is pressed again during a pulse or while the
   simulation is paused. *)
C15_PolarityFollowsTimer ==
  /\ state.fieldPolarity \in {1, -1}
  /\ state.fieldPolarity = -1 => state.pulseTimer # TZero

(* the pulse button was pressed once, and the countdown has run out in the
   middle of a frame and returned the polarity *)
C15_Witness ==
  /\ events = 1
  /\ state.fieldPolarity = 1
  /\ state.pulseTimer = TZero
  /\ ~TLess(sincePulse, PulseSeconds)
  /\ frames >= 17
  /\ lastOp = "integrateStep"
  /\ pc = "loop"

(* C16: while state.running is false, update(dt) with any argument (finite or
   not, of any sign) invokes integrateStep zero times, leaves position,
   velocity, pulseTimer and fieldPolarity (the whole of state and drop) as
   they were, and returns the field computed from that unchanged state. *)
C16_PausedUpdateDoesNothing ==
  [][\A dt \in Durations :
       (~state.running /\ Update(dt)) =>
         /\ pc' = "idle"
         /\ steps' = 0
         /\ state' = state
         /\ drop' = drop
         /\ E' = computeElectricField(state')]_vars

(* a frame longer than MAX_FRAME_DT arrived while the simulation was paused
   in the middle of a pulse *)
C16_Witness ==
  /\ lastOp = "update"
  /\ lastDt = Fin(256)
  /\ ~state.running
  /\ state.fieldPolarity = -1
  /\ state.pulseTimer = PulseSeconds
  /\ pc = "idle"

====
